---- MODULE Spec2Model ----
(***************************************************************************)
(* Model of rvap/vap_bc/vap_bc_main.py: the ingest loop (proc_serv_in),    *)
(* the inference step (VAPRealTime.process_vap), the output acceptor       *)
(* (proc_serv_out) and the result distributor (proc_serv_out_dist).        *)
(*                                                                         *)
(* The three threads interleave at the granularity of one read or write    *)
(* of a shared attribute.  Audio is not modelled sample by sample: a       *)
(* buffer is `zeros` zero samples followed by the samples lo+1..hi of the  *)
(* producer's stream of the current session, which is the only shape the   *)
(* code's concatenate / slice operations can produce.  A value computed by *)
(* inference step k is the token k; 0 is the value set by __init__.        *)
(***************************************************************************)
EXTENDS Integers, Naturals, Sequences, FiniteSets, TLC

-----------------------------------------------------------------------------
(* Program constants *)

FRAME_SIZE_INPUT == 160
FRAME_SIZE_VAP == 1600
FRAME_SAVE_LAST == 320
frame_contxt_padding == 320
AUDIO_CONTEXT_LIM == 50
CALC_PROCESS_TIME_INTERVAL == 100
BYTES_PER_SAMPLE == 8
\* sent_size.to_bytes(4, 'little'), sock_server.recv(4)
HEADER_BYTES == 4
\* console.py
STEP_STDOUT == 20

\* size_recv = 8 * 2 * FRAME_SIZE_INPUT
size_recv == BYTES_PER_SAMPLE * 2 * FRAME_SIZE_INPUT

\* bytes of one sample of channel 1 and one of channel 2, interleaved
PairBytes == 2 * BYTES_PER_SAMPLE

-----------------------------------------------------------------------------
(* Bounds of the model *)

\* producer sessions the environment opens
MaxSessions == 2
\* frames' worth of bytes the producers send in all (segmented reads)
MaxFramesIn == 12
\* the same, in the specifications of the snapshot and of the registry
MaxFramesSnap == 21
MaxFramesOut == 20
\* output consumers that connect
MaxConns == 3
MaxConnsSnap == 1
MaxConnsReg == 2
\* frames' worth of bytes in the specification of consecutive windows
MaxFramesWin == 21
\* whole frames a producer sends in the specification of long runs
MaxFramesLong == 1015
\* the same, in the specification of the console consumer
MaxFramesCon == 21

\* what one socket read can return, besides a whole frame: half a frame, and
\* half a frame plus one lone channel-1 sample
RecvSizes == {size_recv, size_recv \div 2, size_recv \div 2 + BYTES_PER_SAMPLE}
FullReads == {size_recv}
WholeAndHalfReads == {size_recv, size_recv \div 2}

-----------------------------------------------------------------------------
(* Sample buffers (numpy arrays of the ingest loop) *)

\* np.zeros(n)
np_zeros(n) == [zeros |-> n, lo |-> 0, hi |-> 0]

\* len(a)
BufLen(a) == a.zeros + (a.hi - a.lo)

\* the i-th sample of a (1-based); a stream sample is its index, silence is 0
SampleAt(a, i) == IF i <= a.zeros THEN 0 ELSE a.lo + (i - a.zeros)

\* the n samples decoded from the stream after sample `from`
Chunk(from, n) == [zeros |-> 0, lo |-> from, hi |-> from + n]

\* the chunk replaces the buffer
ConcatenateDropsOld(a, x) == x

\* np.concatenate([a, x]) for a chunk x that continues a's stream
Concatenate(a, x) ==
    [zeros |-> a.zeros,
     lo |-> IF a.hi = a.lo THEN x.lo ELSE a.lo,
     hi |-> IF x.hi = x.lo THEN (IF a.hi = a.lo THEN x.lo ELSE a.hi) ELSE x.hi]

\* the tail is replaced by silence
KeepSilence(a, n) == np_zeros(n)

\* a[-n:]
KeepLast(a, n) ==
    IF BufLen(a) <= n THEN a
    ELSE IF a.hi - a.lo >= n
         THEN [zeros |-> 0, lo |-> a.hi - n, hi |-> a.hi]
         ELSE [zeros |-> n - (a.hi - a.lo), lo |-> a.lo, hi |-> a.hi]

\* a[n:]
DropFirst(a, n) ==
    IF BufLen(a) <= n THEN [zeros |-> 0, lo |-> a.hi, hi |-> a.hi]
    ELSE IF a.zeros >= n
         THEN [zeros |-> a.zeros - n, lo |-> a.lo, hi |-> a.hi]
         ELSE [zeros |-> 0, lo |-> a.lo + (n - a.zeros), hi |-> a.hi]

\* a window is only due when the buffer is longer than a whole window
NotReadyInclusive(a) == BufLen(a) <= FRAME_SIZE_VAP + FRAME_SAVE_LAST

\* line 394: len(current_x1) < FRAME_SIZE_VAP + FRAME_SAVE_LAST
NotReady(a) == BufLen(a) < FRAME_SIZE_VAP + FRAME_SAVE_LAST

\* line 375: len(data) < size_recv
ShortRead(n) == n < size_recv

\* line 381: len(data) == size_recv
FrameComplete(n) == n = size_recv

\* line 384: len(data) == 0
NoData(n) == n = 0

\* util.conv_bytearray_2_2floatarray: 8-byte samples, channel 1 and 2
\* interleaved; a payload that is not a whole number of sample pairs cannot
\* be deinterleaved into two equal-length sequences
DecodeOK(n) == n % PairBytes = 0
DecodeLen(n) == n \div PairBytes

\* a handler for socket errors only
CaughtOSError(kind) == kind = "OSError"

\* `except Exception` (line 403) catches every fault of the try block
Caught(kind) == kind \in {"OSError", "DecodeError", "InferenceFault"}

\* only the embedding just appended is kept
ContextOfThisStep(c) == SubSeq(c, Len(c), Len(c))

\* the newest embeddings are dropped instead of the oldest
ContextTrimNewest(c) ==
    IF Len(c) > AUDIO_CONTEXT_LIM THEN SubSeq(c, 1, AUDIO_CONTEXT_LIM) ELSE c

\* lines 261-264: keep the last AUDIO_CONTEXT_LIM embeddings
ContextTrim(c) ==
    IF Len(c) > AUDIO_CONTEXT_LIM
    THEN SubSeq(c, Len(c) - AUDIO_CONTEXT_LIM + 1, Len(c))
    ELSE c

\* line 319: len(list_process_time_context) > CALC_PROCESS_TIME_INTERVAL
ReportDue(l) == Len(l) > CALC_PROCESS_TIME_INTERVAL

-----------------------------------------------------------------------------
VARIABLES
    \* proc_serv_in
    in_pc,          \* where the ingest (main) thread is
    addr,           \* the local `addr`: 0 while unbound, else the session
    data,           \* len(data)
    current_x1,
    current_x2,
    \* the producer side of the input connection
    session,        \* sessions accepted so far
    spos,           \* bytes read from the input port so far, all sessions
    sstart,         \* spos when this session was accepted
    peer_closed,    \* the producer has closed the connection
    port_held,      \* the socket `conn` of the last accept is still bound
                    \* to the input port
    \* the VAPRealTime object
    vap,
    clock,          \* time.time()
    \* history
    calls,          \* the process_vap calls made, in order
    chunks,         \* the lengths of the chunks appended in this session
    log,            \* what the except handler of proc_serv_in printed last,
                    \* since the last accept
    fault,          \* the exception being handled, and where it was raised
    \* the output side
    list_socket_out,
    nconn,          \* output connections accepted so far; they are 1..nconn
    broken,         \* connections on which a send now fails
    dist,           \* proc_serv_out_dist: its position and its locals
    wire,           \* per connection, the records sent to it, in order
    round,          \* the broadcast round in progress, or the last one
    cut,            \* per connection, the frame a failed sendall left
                    \* unfinished: its payload length and the bytes written
    \* output/console.py, the peer of connection 1
    cons            \* process_client: its position and its locals

invars == <<in_pc, addr, data, current_x1, current_x2, session, spos, sstart,
            peer_closed, port_held, calls, chunks, log, fault>>
convars == <<cut, cons>>
outvars == <<list_socket_out, nconn, broken, dist, wire, round, convars>>
vars == <<invars, vap, clock, outvars>>

NoFault == [kind |-> "none", state |-> "none"]
NoLog == [addr |-> 0, kind |-> "none", state |-> "none"]

\* VAPRealTime.__init__, lines 224-236
VapInit ==
    [current_x1_audio |-> [step |-> 0, audio |-> np_zeros(0)],
     current_x2_audio |-> [step |-> 0, audio |-> np_zeros(0)],
     result_p_bc_react |-> 0,
     result_p_bc_emo |-> 0,
     result_last_time |-> -1,
     process_time_abs |-> -1,
     e1_context |-> <<>>,
     e2_context |-> <<>>,
     list_process_time_context |-> <<>>]

\* every connection the acceptor can ever return
Conns == 1 .. MaxConns

\* the locals of proc_serv_out_dist before its first statement
DistInit ==
    [pc |-> "init", previous_time |-> -1, t |-> -1,
     x1 |-> [step |-> 0, audio |-> np_zeros(0)],
     x2 |-> [step |-> 0, audio |-> np_zeros(0)],
     p_bc_react |-> 0, p_bc_emo |-> 0, it |-> 0, conn |-> 0]

NoRound == [n |-> 0, reg |-> <<>>, bad |-> {}, sent |-> {}, removed |-> {},
            done |-> TRUE]

NoCut == [len |-> 0, bytes |-> 0]

\* process_client before it connects; data is the `size` bytes of the
\* server's stream from offset `from` on, of which `have` are read
ConsInit ==
    [pc |-> "connect", pos |-> 0, size |-> 0, from |-> 0, have |-> 0,
     num_step |-> 0, spin |-> 0, got |-> <<>>]

Init ==
    /\ in_pc = "listen"
    /\ addr = 0
    /\ data = 0
    /\ current_x1 = np_zeros(0)
    /\ current_x2 = np_zeros(0)
    /\ session = 0
    /\ spos = 0
    /\ sstart = 0
    /\ peer_closed = FALSE
    /\ port_held = FALSE
    /\ vap = VapInit
    /\ clock = 0
    /\ calls = <<>>
    /\ chunks = <<>>
    /\ log = NoLog
    /\ fault = NoFault
    /\ list_socket_out = <<>>
    /\ nconn = 0
    /\ broken = {}
    /\ dist = DistInit
    /\ wire = [c \in Conns |-> <<>>]
    /\ round = NoRound
    /\ cut = [c \in Conns |-> NoCut]
    /\ cons = ConsInit

-----------------------------------------------------------------------------
(* proc_serv_in *)

\* an exception raised inside the try block of proc_serv_in
Raise(kind, state) ==
    /\ in_pc' = "except"
    /\ fault' = [kind |-> kind, state |-> state]

\* accept is called wherever the thread is
AcceptsAnywhere(pc) == pc \in {"listen", "recv"}

\* line 361: accept is called outside the streaming loop of lines 367-401
AcceptsHere(pc) == pc = "listen"

\* lines 356-365: socket, bind, listen, accept; the buffers are reset. With
\* the port still held by the previous connection, bind succeeds only on a
\* system that lets a port be bound again while a connection accepted on it
\* is open
InListen(maxSessions) ==
    /\ AcceptsHere(in_pc)
    /\ session < maxSessions
    /\ session' = session + 1
    /\ addr' = session + 1
    /\ sstart' = spos
    /\ peer_closed' = FALSE
    /\ port_held' = TRUE
    /\ current_x1' = np_zeros(FRAME_SAVE_LAST)
    /\ current_x2' = np_zeros(FRAME_SAVE_LAST)
    /\ in_pc' = "recv"
    /\ log' = NoLog
    /\ chunks' = <<>>
    /\ UNCHANGED <<data, spos, vap, clock, calls, fault, outvars>>

\* lines 356-361: socket(), bind(), listen() or accept() raises
InListenFail ==
    /\ in_pc = "listen"
    /\ Raise("OSError", "Listening")
    /\ UNCHANGED <<addr, data, current_x1, current_x2, session, spos, sstart,
                   peer_closed, port_held, vap, clock, calls, chunks, log,
                   outvars>>

\* line 357: bind raises EADDRINUSE, the socket of the previous session
\* being still bound to the port: nothing closes it, no SO_REUSEADDR is set,
\* and `conn` refers to it until the next accept returns
InBindInUse ==
    /\ in_pc = "listen"
    /\ port_held
    /\ Raise("OSError", "Listening")
    /\ UNCHANGED <<addr, data, current_x1, current_x2, session, spos, sstart,
                   peer_closed, port_held, vap, clock, calls, chunks, log,
                   outvars>>

\* what conn.recv(size_recv) can return: nothing once the peer has closed,
\* else some of the bytes the producer still sends
Readable(sizes, maxBytes) ==
    IF peer_closed THEN {0}
    ELSE {0} \cup {n \in sizes : n <= size_recv /\ spos + n <= maxBytes}

\* lines 370-375
InRecv(sizes, maxBytes) ==
    /\ in_pc = "recv"
    /\ \E n \in Readable(sizes, maxBytes) :
        /\ data' = n
        /\ spos' = spos + n
        /\ peer_closed' = (peer_closed \/ n = 0)
        /\ in_pc' = IF ShortRead(n) THEN "recv_more" ELSE "check"
    /\ UNCHANGED <<addr, current_x1, current_x2, session, sstart, port_held,
                   vap, clock, calls, chunks, log, fault, outvars>>

\* lines 376-382, one iteration
InRecvMore(sizes, maxBytes) ==
    /\ in_pc = "recv_more"
    /\ \E n \in Readable(sizes, maxBytes) :
        /\ spos' = spos + n
        /\ peer_closed' = (peer_closed \/ n = 0)
        /\ IF n = 0
           THEN data' = data /\ in_pc' = "check"
           ELSE /\ data' = data + n
                /\ in_pc' = IF FrameComplete(data + n) THEN "check"
                            ELSE "recv_more"
    /\ UNCHANGED <<addr, current_x1, current_x2, session, sstart, port_held,
                   vap, clock, calls, chunks, log, fault, outvars>>

\* lines 371, 377: conn.recv raises (connection reset); a connection that
\* was reset no longer holds its local port
InRecvFail ==
    /\ in_pc \in {"recv", "recv_more"}
    /\ ~peer_closed
    /\ Raise("OSError", "Streaming")
    /\ port_held' = FALSE
    /\ UNCHANGED <<addr, data, current_x1, current_x2, session, spos, sstart,
                   peer_closed, vap, clock, calls, chunks, log, outvars>>

\* lines 384-385: nothing was read, the streaming loop ends
InBreak ==
    /\ in_pc = "check"
    /\ NoData(data)
    /\ in_pc' = "listen"
    /\ UNCHANGED <<addr, data, current_x1, current_x2, session, spos, sstart,
                   peer_closed, port_held, vap, clock, calls, chunks, log,
                   fault, outvars>>

\* the samples already decoded in this session
Decoded == (spos - data - sstart) \div PairBytes

\* lines 387-397: decode, append, and either read on or call process_vap
InDecode ==
    /\ in_pc = "check"
    /\ ~NoData(data)
    /\ DecodeOK(data)
    /\ LET x == Chunk(Decoded, DecodeLen(data))
           b1 == Concatenate(current_x1, x)
           b2 == Concatenate(current_x2, x)
       IN /\ current_x1' = b1
          /\ chunks' = Append(chunks, DecodeLen(data))
          /\ current_x2' = b2
          /\ IF NotReady(b1)
             THEN in_pc' = "recv" /\ calls' = calls
             ELSE /\ in_pc' = "vap_x1"
                  /\ calls' = Append(calls, [session |-> session,
                                             x1 |-> b1, x2 |-> b2,
                                             upto |-> spos - sstart,
                                             t |-> -1, emb |-> FALSE,
                                             done |-> FALSE])
    /\ UNCHANGED <<addr, data, session, spos, sstart, peer_closed, port_held,
                   vap, clock, log, fault, outvars>>

\* line 387: the payload cannot be decoded
InDecodeFail ==
    /\ in_pc = "check"
    /\ ~NoData(data)
    /\ ~DecodeOK(data)
    /\ Raise("DecodeError", "Streaming")
    /\ UNCHANGED <<addr, data, current_x1, current_x2, session, spos, sstart,
                   peer_closed, port_held, vap, clock, calls, chunks, log,
                   outvars>>

\* lines 400-401
InTrim ==
    /\ in_pc = "trim"
    /\ current_x1' = KeepLast(current_x1, FRAME_SAVE_LAST)
    /\ current_x2' = KeepLast(current_x2, FRAME_SAVE_LAST)
    /\ in_pc' = "recv"
    /\ UNCHANGED <<addr, data, session, spos, sstart, peer_closed, port_held,
                   vap, clock, calls, chunks, log, fault, outvars>>

\* lines 403-406: the handler prints `addr`, which is unbound until the first
\* accept has returned; the NameError leaves proc_serv_in, and the main thread
InExcept ==
    /\ in_pc = "except"
    /\ IF Caught(fault.kind) /\ addr # 0
       THEN /\ log' = [addr |-> addr, kind |-> fault.kind,
                       state |-> fault.state]
            /\ in_pc' = "listen"
       ELSE /\ log' = log
            /\ in_pc' = "exit"
    /\ fault' = NoFault
    /\ UNCHANGED <<addr, data, current_x1, current_x2, session, spos, sstart,
                   peer_closed, port_held, vap, clock, calls, chunks, outvars>>

-----------------------------------------------------------------------------
(* VAPRealTime.process_vap, called at line 397 with the two buffers *)

step == Len(calls)

\* lines 245-248
VapX1 ==
    /\ in_pc = "vap_x1"
    /\ clock' = clock + 1
    /\ vap' = [vap EXCEPT !.current_x1_audio =
                 [step |-> step,
                  audio |-> DropFirst(current_x1, frame_contxt_padding)]]
    /\ in_pc' = "vap_x2"
    /\ UNCHANGED <<addr, data, current_x1, current_x2, session, spos, sstart,
                   peer_closed, port_held, calls, chunks, log, fault, outvars>>

\* line 249
VapX2 ==
    /\ in_pc = "vap_x2"
    /\ vap' = [vap EXCEPT !.current_x2_audio =
                 [step |-> step,
                  audio |-> DropFirst(current_x2, frame_contxt_padding)]]
    /\ in_pc' = "vap_model"
    /\ UNCHANGED <<addr, data, current_x1, current_x2, session, spos, sstart,
                   peer_closed, port_held, clock, calls, chunks, log, fault,
                   outvars>>

\* lines 251-264: encode, extend both contexts; the model of lines 266-308
\* runs next
VapModel ==
    /\ in_pc = "vap_model"
    /\ vap' = [vap EXCEPT
                 !.e1_context = ContextTrim(Append(@, step)),
                 !.e2_context = ContextTrim(Append(@, step))]
    /\ calls' = [calls EXCEPT ![step].emb = TRUE]
    /\ in_pc' = "vap_react"
    /\ UNCHANGED <<addr, data, current_x1, current_x2, session, spos, sstart,
                   peer_closed, port_held, clock, chunks, log, fault, outvars>>

\* lines 253-308: the encoder raises, before the contexts are extended, or
\* the model does, after
VapRaise ==
    /\ in_pc \in {"vap_model", "vap_react"}
    /\ Raise("InferenceFault", "Streaming")
    /\ UNCHANGED <<addr, data, current_x1, current_x2, session, spos, sstart,
                   peer_closed, port_held, vap, clock, calls, chunks, log,
                   outvars>>

\* line 310
VapReact ==
    /\ in_pc = "vap_react"
    /\ vap' = [vap EXCEPT !.result_p_bc_react = step]
    /\ in_pc' = "vap_emo"
    /\ UNCHANGED <<addr, data, current_x1, current_x2, session, spos, sstart,
                   peer_closed, port_held, clock, calls, chunks, log, fault,
                   outvars>>

\* line 311
VapEmo ==
    /\ in_pc = "vap_emo"
    /\ vap' = [vap EXCEPT !.result_p_bc_emo = step]
    /\ in_pc' = "vap_time"
    /\ UNCHANGED <<addr, data, current_x1, current_x2, session, spos, sstart,
                   peer_closed, port_held, clock, calls, chunks, log, fault,
                   outvars>>

\* line 312
VapTime ==
    /\ in_pc = "vap_time"
    /\ clock' = clock + 1
    /\ vap' = [vap EXCEPT !.result_last_time = clock + 1]
    /\ calls' = [calls EXCEPT ![step].t = clock + 1]
    /\ in_pc' = "vap_done"
    /\ UNCHANGED <<addr, data, current_x1, current_x2, session, spos, sstart,
                   peer_closed, port_held, chunks, log, fault, outvars>>

\* lines 317-322: the latency list after this step's entry
ProcessTimes(l, dt) ==
    IF ReportDue(Append(l, dt)) THEN <<>> ELSE Append(l, dt)

\* lines 314-324
VapDone ==
    /\ in_pc = "vap_done"
    /\ clock' = clock + 2
    /\ vap' = [vap EXCEPT
                 !.list_process_time_context = ProcessTimes(@, step),
                 !.process_time_abs = clock + 2]
    /\ calls' = [calls EXCEPT ![step].done = TRUE]
    /\ in_pc' = "trim"
    /\ UNCHANGED <<addr, data, current_x1, current_x2, session, spos, sstart,
                   peer_closed, port_held, chunks, log, fault, outvars>>

-----------------------------------------------------------------------------
(* proc_serv_out: the acceptor *)

\* the daemon threads run as long as the main thread, proc_serv_in, does,
\* and the process has not been stopped
Alive == in_pc \notin {"exit", "killed"}

\* the operator stops the server: the only way the design ends it
Terminate ==
    /\ Alive
    /\ in_pc' = "killed"
    /\ UNCHANGED <<addr, data, current_x1, current_x2, session, spos, sstart,
                   peer_closed, port_held, vap, clock, calls, chunks, log,
                   fault, outvars>>

\* list.append(conn)
ListAppend(l, c) == Append(l, c)

\* lines 335-341: a consumer connects and is registered
OutAccept(maxConns) ==
    /\ Alive
    /\ nconn < maxConns
    /\ nconn' = nconn + 1
    /\ list_socket_out' = ListAppend(list_socket_out, nconn + 1)
    /\ UNCHANGED <<invars, vap, clock, convars, broken, dist, wire, round>>

\* a consumer closes its socket, or stops reading: sends to it fail from now on
ConnBreak ==
    /\ Alive
    /\ \E c \in 1 .. nconn :
        /\ c \notin broken
        /\ broken' = broken \cup {c}
    /\ UNCHANGED <<invars, vap, clock, convars, list_socket_out, nconn, dist,
                   wire, round>>

-----------------------------------------------------------------------------
(* proc_serv_out_dist: the distributor *)

Range(l) == {l[i] : i \in 1 .. Len(l)}

\* the index of the first occurrence of c in l, 0 when there is none
IndexOf(l, c) ==
    IF c \in Range(l) THEN CHOOSE i \in 1 .. Len(l) :
                               /\ l[i] = c
                               /\ \A j \in 1 .. (i - 1) : l[j] # c
    ELSE 0

\* a removal that drops the last entry, whichever connection failed
ListRemoveLast(l, c) == SubSeq(l, 1, Len(l) - 1)

\* list.remove(c): the first occurrence goes
ListRemove(l, c) ==
    LET i == IndexOf(l, c)
    IN SubSeq(l, 1, i - 1) \o SubSeq(l, i + 1, Len(l))

\* the list iterator of `for conn in list_socket_out` holds an index into
\* the list as it is now
HasNext(l, it) == it < Len(l)

\* conn.fileno(): the server never closes an output socket
Fileno(c) == c

\* a poll that takes every look at process_time_abs for a new snapshot
NoNewsNever(prev, now) == FALSE

\* line 414: previous_time == vap.process_time_abs
NoNews(prev, now) == prev = now

\* lines 426-430
VapResult(d) ==
    [t |-> d.t, x1 |-> d.x1, x2 |-> d.x2,
     p_bc_react |-> d.p_bc_react, p_bc_emo |-> d.p_bc_emo]

\* line 410
DistStart ==
    /\ Alive
    /\ dist.pc = "init"
    /\ dist' = [dist EXCEPT !.previous_time = vap.process_time_abs,
                            !.pc = "poll"]
    /\ UNCHANGED <<invars, vap, clock, convars, list_socket_out, nconn, broken,
                   wire, round>>

\* lines 414-416: a poll that sees a new process_time_abs
DistPoll ==
    /\ Alive
    /\ dist.pc = "poll"
    /\ ~NoNews(dist.previous_time, vap.process_time_abs)
    /\ dist' = [dist EXCEPT !.pc = "setprev"]
    /\ UNCHANGED <<invars, vap, clock, convars, list_socket_out, nconn, broken,
                   wire, round>>

\* line 418
DistSetPrev ==
    /\ Alive
    /\ dist.pc = "setprev"
    /\ dist' = [dist EXCEPT !.previous_time = vap.process_time_abs,
                            !.pc = "copy_t"]
    /\ UNCHANGED <<invars, vap, clock, convars, list_socket_out, nconn, broken,
                   wire, round>>

\* line 420
DistCopyT ==
    /\ Alive
    /\ dist.pc = "copy_t"
    /\ dist' = [dist EXCEPT !.t = vap.result_last_time, !.pc = "copy_x1"]
    /\ UNCHANGED <<invars, vap, clock, convars, list_socket_out, nconn, broken,
                   wire, round>>

\* line 421
DistCopyX1 ==
    /\ Alive
    /\ dist.pc = "copy_x1"
    /\ dist' = [dist EXCEPT !.x1 = vap.current_x1_audio, !.pc = "copy_x2"]
    /\ UNCHANGED <<invars, vap, clock, convars, list_socket_out, nconn, broken,
                   wire, round>>

\* line 422
DistCopyX2 ==
    /\ Alive
    /\ dist.pc = "copy_x2"
    /\ dist' = [dist EXCEPT !.x2 = vap.current_x2_audio, !.pc = "copy_react"]
    /\ UNCHANGED <<invars, vap, clock, convars, list_socket_out, nconn, broken,
                   wire, round>>

\* line 423
DistCopyReact ==
    /\ Alive
    /\ dist.pc = "copy_react"
    /\ dist' = [dist EXCEPT !.p_bc_react = vap.result_p_bc_react,
                            !.pc = "copy_emo"]
    /\ UNCHANGED <<invars, vap, clock, convars, list_socket_out, nconn, broken,
                   wire, round>>

\* lines 424-436: the last copy, the record is encoded, the loop over the
\* registry begins
DistCopyEmo ==
    /\ Alive
    /\ dist.pc = "copy_emo"
    /\ dist' = [dist EXCEPT !.p_bc_emo = vap.result_p_bc_emo,
                            !.it = 0, !.pc = "for"]
    /\ round' = [n |-> round.n + 1, reg |-> list_socket_out,
                 bad |-> broken \cap Range(list_socket_out),
                 sent |-> {}, removed |-> {}, done |-> FALSE]
    /\ UNCHANGED <<invars, vap, clock, convars, list_socket_out, nconn, broken,
                   wire>>

\* line 436: the iterator yields the next connection, or the loop ends
DistFor ==
    /\ Alive
    /\ dist.pc = "for"
    /\ IF HasNext(list_socket_out, dist.it)
       THEN /\ dist' = [dist EXCEPT !.conn = list_socket_out[dist.it + 1],
                                    !.it = dist.it + 1, !.pc = "send"]
            /\ round' = round
       ELSE /\ dist' = [dist EXCEPT !.pc = "poll"]
            /\ round' = [round EXCEPT !.done = TRUE]
    /\ UNCHANGED <<invars, vap, clock, convars, list_socket_out, nconn, broken,
                   wire>>

\* lines 438-439: sendall succeeds, or is not tried on a closed socket object
DistSend ==
    /\ Alive
    /\ dist.pc = "send"
    /\ Fileno(dist.conn) = -1 \/ dist.conn \notin broken
    /\ IF Fileno(dist.conn) # -1
       THEN /\ wire' = [wire EXCEPT ![dist.conn] =
                           Append(@, [round |-> round.n] @@ VapResult(dist))]
            /\ round' = [round EXCEPT !.sent = @ \cup {dist.conn}]
       ELSE UNCHANGED <<wire, round>>
    /\ dist' = [dist EXCEPT !.pc = "for"]
    /\ UNCHANGED <<invars, vap, clock, convars, list_socket_out, nconn,
                   broken>>

\* lines 438-440: sendall raises
DistSendFail ==
    /\ Alive
    /\ dist.pc = "send"
    /\ dist.conn \in broken
    /\ Fileno(dist.conn) # -1
    /\ dist' = [dist EXCEPT !.pc = "except"]
    /\ UNCHANGED <<invars, vap, clock, convars, list_socket_out, nconn, broken,
                   wire, round>>

\* lines 441-443: the peer is printed and the connection removed
DistExcept ==
    /\ Alive
    /\ dist.pc = "except"
    /\ IF dist.conn \in Range(list_socket_out)
       THEN /\ list_socket_out' = ListRemove(list_socket_out, dist.conn)
            /\ round' = [round EXCEPT !.removed = @ \cup {dist.conn}]
            /\ dist' = [dist EXCEPT !.pc = "for"]
       ELSE /\ dist' = [dist EXCEPT !.pc = "dead"]
            /\ UNCHANGED <<list_socket_out, round>>
    /\ UNCHANGED <<invars, vap, clock, convars, nconn, broken, wire>>

\* line 441: conn.getpeername() raises on a socket that is no longer
\* connected; nothing catches an exception raised in the handler, and the
\* distributor thread ends
DistExceptRaise ==
    /\ Alive
    /\ dist.pc = "except"
    /\ dist' = [dist EXCEPT !.pc = "dead"]
    /\ UNCHANGED <<invars, vap, clock, convars, list_socket_out, nconn, broken,
                   wire, round>>

-----------------------------------------------------------------------------
(* The bytes on an output connection *)

\* util.conv_vapresult_2_bytearray_bc: the length of the payload of a
\* record, 8 bytes for the timestamp, for every sample of either slice and
\* for either probability
EncodedLen(r) ==
    BYTES_PER_SAMPLE * (1 + BufLen(r.x1.audio) + BufLen(r.x2.audio) + 2)

\* n.to_bytes(HEADER_BYTES, 'little'), bytes 0 .. 3
ToBytesLE(n) == [j \in 0 .. HEADER_BYTES - 1 |-> (n \div (256 ^ j)) % 256]

\* int.from_bytes(b[:k], 'little')
RECURSIVE FromBytesLE(_, _)
FromBytesLE(b, k) ==
    IF k = 0 THEN 0 ELSE FromBytesLE(b, k - 1) + b[k - 1] * (256 ^ (k - 1))

\* data_sent_all of the first i records of w, in bytes
RECURSIVE BytesUpTo(_, _)
BytesUpTo(w, i) ==
    IF i = 0 THEN 0
    ELSE BytesUpTo(w, i - 1) + HEADER_BYTES + EncodedLen(w[i])

\* all the bytes written to connection c
StreamLen(c) == BytesUpTo(wire[c], Len(wire[c])) + cut[c].bytes

\* the frame of c that starts at offset pos, the unfinished one included;
\* 0 when pos is inside a frame
FrameAt(c, pos) ==
    IF \E i \in 0 .. Len(wire[c]) : BytesUpTo(wire[c], i) = pos
    THEN 1 + CHOOSE i \in 0 .. Len(wire[c]) : BytesUpTo(wire[c], i) = pos
    ELSE 0

\* the payload length the header of frame i of c declares
DeclaredLen(c, i) ==
    IF i <= Len(wire[c]) THEN EncodedLen(wire[c][i]) ELSE cut[c].len

\* the server's socket of c is closed: the process is gone, or nothing
\* refers to the socket object any more (it is off the list, and `conn` of
\* the distributor names another one or the distributor has ended)
SocketClosed(c) ==
    /\ c \in 1 .. nconn
    /\ \/ ~Alive
       \/ /\ c \notin Range(list_socket_out)
          /\ (dist.conn # c \/ dist.pc = "dead")

\* what a failed sendall may have written of a frame with payload length l:
\* half the header, or the header and half the payload
PartialWrites(l) == {HEADER_BYTES \div 2, HEADER_BYTES + l \div 2}

\* lines 439-440: the consumer reads too slowly, the socket buffer is full:
\* sendall on the non-blocking socket (lines 337-338) writes a part of the
\* frame and raises
DistSendPartial ==
    /\ Alive
    /\ dist.pc = "send"
    /\ dist.conn \notin broken
    /\ Fileno(dist.conn) # -1
    /\ \E n \in PartialWrites(EncodedLen(VapResult(dist))) :
        cut' = [cut EXCEPT ![dist.conn] =
                   [len |-> EncodedLen(VapResult(dist)), bytes |-> n]]
    /\ dist' = [dist EXCEPT !.pc = "except"]
    /\ UNCHANGED <<invars, vap, clock, cons, list_socket_out, nconn, broken,
                   wire, round>>

-----------------------------------------------------------------------------
(* output/console.py, process_client: the consumer on connection 1 *)

ConsumerConn == 1

Min(a, b) == IF a <= b THEN a ELSE b

\* what sock_server.recv(n) can return at offset pos of the stream: all that
\* was asked for and is there, or half of it; nothing when n is 0 or when
\* the stream has ended; it blocks while nothing is there
Received(n, pos) ==
    LET avail == StreamLen(ConsumerConn) - pos
        most == Min(n, avail)
    IN IF n = 0 THEN {0}
       ELSE IF avail > 0 THEN {most, (most + 1) \div 2}
       ELSE IF SocketClosed(ConsumerConn) THEN {0}
       ELSE {}

\* util.conv_bytearray_2_vapresult: nothing can be decoded from no bytes
DecodeRaises(n) == n = 0

\* the payload of frame i of the consumer's connection, as a part of the
\* stream
PayloadOf(i) ==
    [from |-> BytesUpTo(wire[ConsumerConn], i - 1) + HEADER_BYTES,
     len |-> EncodedLen(wire[ConsumerConn][i])]

\* data is the payload of a frame that was sent whole
IsPayload(d) == \E i \in 1 .. Len(wire[ConsumerConn]) : d = PayloadOf(i)

\* lines 13-16
ConConnect ==
    /\ cons.pc = "connect"
    /\ ConsumerConn \in 1 .. nconn
    /\ cons' = [cons EXCEPT !.pc = "header"]
    /\ UNCHANGED <<invars, vap, clock, cut, list_socket_out, nconn, broken,
                   dist, wire, round>>

\* lines 21-22: up to 4 bytes are read and taken for the length, however
\* many they are; a read that starts inside a frame takes sample bytes for
\* a length, and the consumer is out of step for good
ConRecvHeader ==
    /\ cons.pc = "header"
    /\ \E k \in Received(HEADER_BYTES, cons.pos) :
        LET i == FrameAt(ConsumerConn, cons.pos)
        IN IF i = 0
           THEN cons' = [cons EXCEPT !.pc = "lost", !.pos = @ + k]
           ELSE cons' = [cons EXCEPT
                    !.size = FromBytesLE(
                                 ToBytesLE(DeclaredLen(ConsumerConn, i)), k),
                    !.pos = @ + k,
                    !.pc = "payload"]
    /\ UNCHANGED <<invars, vap, clock, cut, list_socket_out, nconn, broken,
                   dist, wire, round>>

\* line 24
ConRecvPayload ==
    /\ cons.pc = "payload"
    /\ \E n \in Received(cons.size, cons.pos) :
        cons' = [cons EXCEPT !.from = cons.pos, !.have = n, !.pos = @ + n,
                             !.pc = "loop"]
    /\ UNCHANGED <<invars, vap, clock, cut, list_socket_out, nconn, broken,
                   dist, wire, round>>

\* lines 25-26, one iteration; spin is the parity of the iterations made
ConRecvMore ==
    /\ cons.pc = "loop"
    /\ cons.have < cons.size
    /\ \E n \in Received(cons.size - cons.have, cons.pos) :
        cons' = [cons EXCEPT !.have = @ + n, !.pos = @ + n,
                             !.spin = 1 - @]
    /\ UNCHANGED <<invars, vap, clock, cut, list_socket_out, nconn, broken,
                   dist, wire, round>>

\* lines 25, 28-40: the loop is left, data is decoded, the step is counted
ConDecode ==
    /\ cons.pc = "loop"
    /\ ~(cons.have < cons.size)
    /\ LET d == [from |-> cons.from, len |-> cons.have]
       IN \/ /\ ~DecodeRaises(cons.have)
             /\ cons' = [cons EXCEPT
                    !.got = Append(@, d),
                    !.num_step = IF @ + 1 = STEP_STDOUT THEN 0 ELSE @ + 1,
                    !.pc = "header"]
          \/ /\ DecodeRaises(cons.have) \/ ~IsPayload(d)
             /\ cons' = [cons EXCEPT !.pc = "except"]
    /\ UNCHANGED <<invars, vap, clock, cut, list_socket_out, nconn, broken,
                   dist, wire, round>>

\* lines 42-45, and the end of the `with` block of line 13: the consumer
\* stops and its socket is closed
ConExcept ==
    /\ cons.pc = "except"
    /\ cons' = [cons EXCEPT !.pc = "stopped"]
    /\ broken' = broken \cup {ConsumerConn}
    /\ UNCHANGED <<invars, vap, clock, cut, list_socket_out, nconn, dist,
                   wire, round>>

-----------------------------------------------------------------------------
(* The ingest thread alone, under any segmentation of the stream *)

NextIn ==
    \/ InListen(MaxSessions)
    \/ InListenFail
    \/ InRecv(RecvSizes, MaxFramesIn * size_recv)
    \/ InRecvMore(RecvSizes, MaxFramesIn * size_recv)
    \/ InRecvFail
    \/ InBreak
    \/ InDecode
    \/ InDecodeFail
    \/ InTrim
    \/ InExcept
    \/ VapX1 \/ VapX2 \/ VapModel \/ VapRaise \/ VapReact \/ VapEmo
    \/ VapTime \/ VapDone

SpecIn == Init /\ [][NextIn]_vars

\* the same thread when every read returns a whole frame or half of one;
\* the thread is given its turn as long as it can take a step
NextClose ==
    \/ InListen(MaxSessions)
    \/ InBindInUse
    \/ InRecv(WholeAndHalfReads, MaxFramesIn * size_recv)
    \/ InRecvMore(WholeAndHalfReads, MaxFramesIn * size_recv)
    \/ InRecvFail
    \/ InBreak
    \/ InDecode
    \/ InTrim
    \/ InExcept
    \/ VapX1 \/ VapX2 \/ VapModel \/ VapRaise \/ VapReact \/ VapEmo
    \/ VapTime \/ VapDone

FairSpecClose == Init /\ [][NextClose]_vars /\ WF_vars(NextClose)

\* the same reads over a stream long enough for two windows in one session
NextWin ==
    \/ InListen(MaxSessions)
    \/ InListenFail
    \/ InRecv(WholeAndHalfReads, MaxFramesWin * size_recv)
    \/ InRecvMore(WholeAndHalfReads, MaxFramesWin * size_recv)
    \/ InRecvFail
    \/ InBreak
    \/ InDecode
    \/ InTrim
    \/ InExcept
    \/ VapX1 \/ VapX2 \/ VapModel \/ VapRaise \/ VapReact \/ VapEmo
    \/ VapTime \/ VapDone

SpecWin == Init /\ [][NextWin]_vars

-----------------------------------------------------------------------------
(* Long runs of the ingest thread: one producer that sends whole frames *)

NextLong ==
    \/ InListen(1)
    \/ InRecv(FullReads, MaxFramesLong * size_recv)
    \/ InRecvMore(FullReads, MaxFramesLong * size_recv)
    \/ InBreak
    \/ InDecode
    \/ InTrim
    \/ InExcept
    \/ VapX1 \/ VapX2 \/ VapModel \/ VapRaise \/ VapReact \/ VapEmo
    \/ VapTime \/ VapDone

SpecLong == Init /\ [][NextLong]_vars

-----------------------------------------------------------------------------
(* The snapshot: inference steps against the distributor's copy, one       *)
(* consumer, a producer that sends whole frames                            *)

NextSnap ==
    \/ InListen(1)
    \/ InRecv(FullReads, MaxFramesSnap * size_recv)
    \/ InRecvMore(FullReads, MaxFramesSnap * size_recv)
    \/ InBreak
    \/ InDecode
    \/ InTrim
    \/ VapX1 \/ VapX2 \/ VapModel \/ VapReact \/ VapEmo \/ VapTime \/ VapDone
    \/ OutAccept(MaxConnsSnap)
    \/ DistStart \/ DistPoll \/ DistSetPrev
    \/ DistCopyT \/ DistCopyX1 \/ DistCopyX2 \/ DistCopyReact \/ DistCopyEmo
    \/ DistFor \/ DistSend

SpecSnap == Init /\ [][NextSnap]_vars

-----------------------------------------------------------------------------
(* The registry: acceptor, distributor and failing consumers *)

NextOut ==
    \/ InListen(1)
    \/ InRecv(FullReads, MaxFramesOut * size_recv)
    \/ InRecvMore(FullReads, MaxFramesOut * size_recv)
    \/ InBreak
    \/ InDecode
    \/ InTrim
    \/ VapX1 \/ VapX2 \/ VapModel \/ VapReact \/ VapEmo \/ VapTime \/ VapDone
    \/ OutAccept(MaxConns)
    \/ ConnBreak
    \/ DistStart \/ DistPoll \/ DistSetPrev
    \/ DistCopyT \/ DistCopyX1 \/ DistCopyX2 \/ DistCopyReact \/ DistCopyEmo
    \/ DistFor \/ DistSend \/ DistSendFail \/ DistExcept \/ DistExceptRaise

SpecOut == Init /\ [][NextOut]_vars

\* the same with fewer consumers
NextReg ==
    \/ InListen(1)
    \/ InRecv(FullReads, MaxFramesOut * size_recv)
    \/ InRecvMore(FullReads, MaxFramesOut * size_recv)
    \/ InBreak
    \/ InDecode
    \/ InTrim
    \/ VapX1 \/ VapX2 \/ VapModel \/ VapReact \/ VapEmo \/ VapTime \/ VapDone
    \/ OutAccept(MaxConnsReg)
    \/ ConnBreak
    \/ DistStart \/ DistPoll \/ DistSetPrev
    \/ DistCopyT \/ DistCopyX1 \/ DistCopyX2 \/ DistCopyReact \/ DistCopyEmo
    \/ DistFor \/ DistSend \/ DistSendFail \/ DistExcept \/ DistExceptRaise

SpecReg == Init /\ [][NextReg]_vars

\* proc_serv_out_dist, any step of it
Distributor ==
    \/ DistStart \/ DistPoll \/ DistSetPrev
    \/ DistCopyT \/ DistCopyX1 \/ DistCopyX2 \/ DistCopyReact \/ DistCopyEmo
    \/ DistFor \/ DistSend \/ DistSendFail \/ DistExcept \/ DistExceptRaise

\* proc_serv_in, any step of it that does not wait for the producer
IngestRuns ==
    \/ InBreak
    \/ InDecode
    \/ InTrim
    \/ VapX1 \/ VapX2 \/ VapModel \/ VapReact \/ VapEmo \/ VapTime \/ VapDone

\* either thread is given its turn as long as it can take a step
FairSpecReg == SpecReg /\ WF_vars(Distributor) /\ WF_vars(IngestRuns)

-----------------------------------------------------------------------------
(* The console consumer against the distributor: one consumer, a producer  *)
(* that sends whole frames, a server that may be stopped                   *)

ServerCon ==
    \/ InListen(1)
    \/ InRecv(FullReads, MaxFramesCon * size_recv)
    \/ InRecvMore(FullReads, MaxFramesCon * size_recv)
    \/ InBreak
    \/ InDecode
    \/ InTrim
    \/ VapX1 \/ VapX2 \/ VapModel \/ VapReact \/ VapEmo \/ VapTime \/ VapDone
    \/ Terminate
    \/ OutAccept(MaxConnsSnap)
    \/ DistStart \/ DistPoll \/ DistSetPrev
    \/ DistCopyT \/ DistCopyX1 \/ DistCopyX2 \/ DistCopyReact \/ DistCopyEmo
    \/ DistFor \/ DistSend \/ DistSendFail \/ DistSendPartial
    \/ DistExcept \/ DistExceptRaise

Consumer ==
    \/ ConConnect
    \/ ConRecvHeader
    \/ ConRecvPayload
    \/ ConRecvMore
    \/ ConDecode
    \/ ConExcept

NextCon == ServerCon \/ Consumer

SpecCon == Init /\ [][NextCon]_vars

\* the consumer's thread is given its turn as long as it can take a step
FairSpecCon == SpecCon /\ WF_vars(Consumer)

-----------------------------------------------------------------------------
(* The whole program *)

Next ==
    \/ InListen(MaxSessions)
    \/ InListenFail
    \/ InBindInUse
    \/ InRecv(RecvSizes, MaxFramesOut * size_recv)
    \/ InRecvMore(RecvSizes, MaxFramesOut * size_recv)
    \/ InRecvFail
    \/ InBreak
    \/ InDecode
    \/ InDecodeFail
    \/ InTrim
    \/ InExcept
    \/ VapX1 \/ VapX2 \/ VapModel \/ VapRaise \/ VapReact \/ VapEmo
    \/ VapTime \/ VapDone
    \/ OutAccept(MaxConns)
    \/ ConnBreak
    \/ DistStart \/ DistPoll \/ DistSetPrev
    \/ DistCopyT \/ DistCopyX1 \/ DistCopyX2 \/ DistCopyReact \/ DistCopyEmo
    \/ DistFor \/ DistSend \/ DistSendFail \/ DistSendPartial
    \/ DistExcept \/ DistExceptRaise
    \/ Terminate
    \/ Consumer

Spec == Init /\ [][Next]_vars

-----------------------------------------------------------------------------
(* Claims about the snapshot and the registry *)

\* the fields of a record all come from inference step k
FromStep(r, k) ==
    /\ r.t = calls[k].t
    /\ r.x1.step = k
    /\ r.x2.step = k
    /\ r.p_bc_react = k
    /\ r.p_bc_emo = k

\* C1: every record the distributor sends has its timestamp, both audio
\* slices and both probabilities from one and the same inference step.
C1_SnapshotNeverTorn ==
    \A c \in Conns : \A i \in 1 .. Len(wire[c]) :
        \E k \in 1 .. Len(calls) : FromStep(wire[c][i], k)

\* C2: the timestamps of the records sent to one connection are strictly
\* increasing.
C2_TimestampsStrictlyIncrease ==
    \A c \in Conns : \A i, j \in 1 .. Len(wire[c]) :
        i < j => wire[c][i].t < wire[c][j].t

\* a finished broadcast round that began with three registered connections
\* of which exactly one fails on send, then and throughout
OneOfThreeFails ==
    /\ round.n > 0
    /\ round.done
    /\ Len(round.reg) = 3
    /\ Cardinality(round.bad) = 1
    /\ broken \cap Range(round.reg) = round.bad

\* C3: with three connections registered and exactly one of them failing,
\* the round removes exactly that one and delivers to both of the others.
C3_OneFailureOthersDelivered ==
    OneOfThreeFails =>
        /\ round.removed = round.bad
        /\ round.sent = Range(round.reg) \ round.bad

\* C4: a send failure is never fatal to the distributor: its loop goes on.
C4_DistributorNeverDies == dist.pc # "dead"

\* the connections that were registered and have been removed
Removed == {c \in 1 .. nconn : c \notin Range(list_socket_out)}

NoDuplicate(l) == \A i, j \in 1 .. Len(l) : i # j => l[i] # l[j]

\* C5: the registry never holds a connection twice; a step that removes
\* drops only the connection whose send has just failed; a removed
\* connection stays removed and is never sent a later record.
C5_RegistryIntegrity ==
    /\ [](NoDuplicate(list_socket_out))
    /\ [][/\ \A c \in Range(list_socket_out) \ Range(list_socket_out') :
                dist.pc = "except" /\ c = dist.conn /\ c \in broken
          /\ \A c \in Removed : c \in Removed' /\ wire'[c] = wire[c]
          /\ \A c \in Conns : wire'[c] # wire[c] =>
                c \in Range(list_socket_out)]_vars

\* a connection was sent a record, failed and was removed, while another
\* one, still registered, has received two records
C5_Witness ==
    \E c \in Removed : \E c2 \in Range(list_socket_out) :
        /\ Len(wire[c]) >= 1
        /\ Len(wire[c2]) >= 2

-----------------------------------------------------------------------------
(* Claims about the ingest server *)

WindowLen == FRAME_SIZE_VAP + FRAME_SAVE_LAST

\* the process_vap calls of the current session
SessionCalls == {k \in 1 .. Len(calls) : calls[k].session = session}

\* C6: once the producer has closed (a zero-length read), whatever had been
\* read, the server comes back to Listening; the loop ends without a
\* process_vap call, no window shorter than a whole one is ever passed, and
\* the next accept starts from fresh buffers, the left-over samples dropped;
\* and the next producer, there being one, is accepted in the end.
C6_CloseReturnsToListening ==
    /\ (peer_closed ~> in_pc = "listen")
    /\ \A n \in 1 .. MaxSessions - 1 :
          (peer_closed /\ session = n) ~> (session = n + 1)
    /\ [](\A k \in 1 .. Len(calls) : BufLen(calls[k].x1) >= WindowLen)
    /\ [][/\ (in_pc = "check" /\ data = 0) =>
                in_pc' = "listen" /\ calls' = calls
          /\ (in_pc = "listen" /\ in_pc' = "recv") =>
                /\ session' = session + 1
                /\ calls' = calls
                /\ current_x1' = np_zeros(FRAME_SAVE_LAST)
                /\ current_x2' = np_zeros(FRAME_SAVE_LAST)]_vars

\* C7: a fault raised while Streaming is logged with the peer, ends only the
\* current session and returns the server to Listening: proc_serv_in does
\* not terminate.
C7_StreamingFaultRecovered ==
    [][(in_pc = "except" /\ fault.state = "Streaming") =>
          \/ in_pc' = "except" /\ fault' = fault
          \/ /\ in_pc' = "listen"
             /\ log' = [addr |-> session, kind |-> fault.kind,
                        state |-> "Streaming"]
             /\ UNCHANGED <<session, vap, calls, outvars>>]_vars

\* an inference fault has been handled and the server is Listening again
C7_Witness ==
    /\ in_pc = "listen"
    /\ log.kind = "InferenceFault"
    /\ log.state = "Streaming"
    /\ Len(calls) >= 1

\* C8: a fault raised in Listening, also before any producer has connected,
\* is logged and retried: proc_serv_in never terminates.
C8_ListeningFaultRetried == in_pc # "exit"

\* C9: every window passed to process_vap has length window_len +
\* overlap_len on both channels, windows are passed in the order in which
\* their completing chunks arrived, and none is passed twice.
C9_WindowsExactInOrderOnce ==
    /\ \A k \in 1 .. Len(calls) :
        /\ BufLen(calls[k].x1) = WindowLen
        /\ BufLen(calls[k].x2) = WindowLen
    /\ \A j, k \in 1 .. Len(calls) :
        j < k =>
            \/ calls[j].session < calls[k].session
            \/ /\ calls[j].session = calls[k].session
               /\ calls[j].upto < calls[k].upto

\* a session in which every chunk so far was a whole frame, n of them, all
\* processed
FedWholeChunks(n) ==
    /\ in_pc = "recv"
    /\ Len(chunks) = n
    /\ \A i \in 1 .. n : chunks[i] = FRAME_SIZE_INPUT

\* C10 as stated: of 11 chunks of 160 samples fed into fresh buffers, the
\* window is produced after the 11th, exactly one window of length 1920 has
\* been produced by then, and both buffers hold 320 samples after the 11th.
C10_WindowAfterEleventhChunk ==
    /\ FedWholeChunks(10) => SessionCalls = {}
    /\ FedWholeChunks(11) =>
        /\ Cardinality(SessionCalls) = 1
        /\ \A k \in SessionCalls : BufLen(calls[k].x1) = WindowLen
        /\ BufLen(current_x1) = FRAME_SAVE_LAST
        /\ BufLen(current_x2) = FRAME_SAVE_LAST

\* C10, amended: the window is produced by the 10th chunk (320 + 10 * 160 =
\* 1920): none before it, exactly one of length 1920 once 10 or 11 chunks
\* are in, completed by the 10th; the buffers hold 320 samples after the
\* 10th chunk and 320 + 160 after the 11th.
C10_WindowAfterTenthChunk ==
    /\ \A n \in 0 .. 9 : FedWholeChunks(n) => SessionCalls = {}
    /\ \A n \in {10, 11} : FedWholeChunks(n) =>
        /\ Cardinality(SessionCalls) = 1
        /\ \A k \in SessionCalls :
            /\ BufLen(calls[k].x1) = WindowLen
            /\ BufLen(calls[k].x2) = WindowLen
            /\ calls[k].upto = 10 * size_recv
        /\ BufLen(current_x1) = FRAME_SAVE_LAST + (n - 10) * FRAME_SIZE_INPUT
        /\ BufLen(current_x2) = FRAME_SAVE_LAST + (n - 10) * FRAME_SIZE_INPUT

\* eleven whole chunks are in, one window has been produced
C10_Witness ==
    /\ FedWholeChunks(11)
    /\ Cardinality(SessionCalls) = 1

-----------------------------------------------------------------------------
(* Claims about the window buffers *)

StreamingPcs == {"recv", "recv_more", "check", "vap_x1", "vap_x2", "vap_model",
                 "vap_react", "vap_emo", "vap_time", "vap_done", "trim"}

\* windows j and k were passed one after the other in the same session
Consecutive(j, k) ==
    /\ k = j + 1
    /\ k <= Len(calls)
    /\ calls[j].session = calls[k].session

\* the first n samples of window b are the last n samples of window a
Overlaps(a, b, n) ==
    \A i \in 1 .. n : SampleAt(b, i) = SampleAt(a, BufLen(a) - n + i)

\* the first window of each session
FirstOfSession(k) ==
    /\ k \in 1 .. Len(calls)
    /\ (k = 1 \/ calls[k - 1].session # calls[k].session)

\* C11: in one session the first overlap_len samples of a window are the
\* last overlap_len samples of the window before it, on each channel; the
\* first window of a session starts with overlap_len zero samples.
C11_OverlapCarriedOver ==
    /\ \A j, k \in 1 .. Len(calls) :
          Consecutive(j, k) =>
              /\ Overlaps(calls[j].x1, calls[k].x1, FRAME_SAVE_LAST)
              /\ Overlaps(calls[j].x2, calls[k].x2, FRAME_SAVE_LAST)
    /\ \A k \in 1 .. Len(calls) :
          FirstOfSession(k) =>
              /\ calls[k].x1.zeros = FRAME_SAVE_LAST
              /\ calls[k].x2.zeros = FRAME_SAVE_LAST

\* two windows of one session have been passed, the second one after a
\* read that returned half a frame
C11_Witness ==
    /\ \E j, k \in 1 .. Len(calls) :
          /\ Consecutive(j, k)
          /\ calls[k].done
          /\ calls[k].x1.lo > 0
    /\ \E i \in 1 .. Len(chunks) : chunks[i] # FRAME_SIZE_INPUT

\* C12: while streaming, both buffers hold at least overlap_len samples;
\* right after a window is consumed they hold exactly overlap_len; any
\* other step leaves their length alone or adds the length of the chunk
\* appended.
C12_BufferLength ==
    /\ [](in_pc \in StreamingPcs =>
            /\ BufLen(current_x1) >= FRAME_SAVE_LAST
            /\ BufLen(current_x2) >= FRAME_SAVE_LAST)
    /\ [][/\ in_pc = "trim" =>
                /\ BufLen(current_x1') = FRAME_SAVE_LAST
                /\ BufLen(current_x2') = FRAME_SAVE_LAST
          /\ (in_pc \in StreamingPcs \ {"trim"} /\ in_pc' \in StreamingPcs) =>
                \/ /\ BufLen(current_x1') = BufLen(current_x1)
                   /\ BufLen(current_x2') = BufLen(current_x2)
                \/ /\ in_pc = "check"
                   /\ Len(chunks') = Len(chunks) + 1
                   /\ BufLen(current_x1') =
                         BufLen(current_x1) + chunks'[Len(chunks')]
                   /\ BufLen(current_x2') =
                         BufLen(current_x2) + chunks'[Len(chunks')]]_vars

\* a window was consumed and half a chunk has been appended since
C12_Witness ==
    /\ in_pc = "recv"
    /\ SessionCalls # {}
    /\ BufLen(current_x1) = FRAME_SAVE_LAST + FRAME_SIZE_INPUT \div 2
    /\ BufLen(current_x2) = FRAME_SAVE_LAST + FRAME_SIZE_INPUT \div 2

\* C14: every chunk decoded and appended is built from exactly size_recv
\* bytes, one frame of the producer, however the stream is cut into reads.
C14_ChunksAreWholeFrames ==
    /\ \A i \in 1 .. Len(chunks) : chunks[i] * PairBytes = size_recv
    /\ (in_pc = "check" /\ ~NoData(data)) => data = size_recv

\* C17: the connection being read is the one accepted last, and a producer
\* is accepted only from Listening, that is after the streaming loop of the
\* one before has ended, by a close or by a fault.
C17_OneProducerAtATime ==
    /\ [](in_pc \in StreamingPcs => (session >= 1 /\ addr = session))
    /\ [][session' # session =>
              /\ in_pc = "listen"
              /\ in_pc' = "recv"
              /\ session' = session + 1
              /\ (session >= 1 => (peer_closed \/ log.addr = session))]_vars

\* a second producer is being read, after the first one closed having had a
\* window processed
C17_Witness ==
    /\ session = 2
    /\ in_pc = "recv_more"
    /\ \E k \in 1 .. Len(calls) : calls[k].session = 1 /\ calls[k].done

-----------------------------------------------------------------------------
(* Claims about the inference context *)

\* the steps whose embeddings were inserted, in order
Inserted ==
    SelectSeq([k \in 1 .. Len(calls) |-> k], LAMBDA k : calls[k].emb)

\* the last n elements of s, all of s when it has no more than n
LastOf(s, n) == IF Len(s) > n THEN SubSeq(s, Len(s) - n + 1, Len(s)) ELSE s

\* C13: each context holds at most C = 50 embeddings, the last C inserted
\* in insertion order once more than C were inserted (all of them before),
\* and both contexts have the same length.
C13_ContextBoundedFifo ==
    /\ Len(vap.e1_context) <= AUDIO_CONTEXT_LIM
    /\ Len(vap.e2_context) = Len(vap.e1_context)
    /\ vap.e1_context = LastOf(Inserted, AUDIO_CONTEXT_LIM)
    /\ vap.e2_context = LastOf(Inserted, AUDIO_CONTEXT_LIM)

\* more than C embeddings were inserted: the oldest ones are gone
C13_Witness ==
    /\ Len(Inserted) > AUDIO_CONTEXT_LIM + 1
    /\ Len(vap.e1_context) = AUDIO_CONTEXT_LIM
    /\ vap.e1_context[1] = Len(Inserted) - AUDIO_CONTEXT_LIM + 1

\* the inference steps that have run to their end
Completed == {k \in 1 .. Len(calls) : calls[k].done}

\* C19: the latency list is reported and cleared at steps K, 2K, 3K, ...
\* (K = 100) and at no other step, and never holds more than K entries.
C19_ReportEveryHundredSteps ==
    /\ Len(vap.list_process_time_context) <= CALC_PROCESS_TIME_INTERVAL
    /\ in_pc = "trim" =>
          (vap.list_process_time_context = <<>>
              <=> Cardinality(Completed) % CALC_PROCESS_TIME_INTERVAL = 0)

-----------------------------------------------------------------------------
(* Claims about the output frames and the console consumer *)

\* C15: the header of every frame sent is the 4-byte little-endian length
\* of its payload, and whatever the reads return, the payloads the consumer
\* hands to its decoder are the payloads sent, in order.
C15_ConsumerRecoversPayloads ==
    /\ \A c \in Conns : \A i \in 1 .. Len(wire[c]) :
          FromBytesLE(ToBytesLE(EncodedLen(wire[c][i])), HEADER_BYTES)
              = EncodedLen(wire[c][i])
    /\ Len(cons.got) <= Len(wire[ConsumerConn])
    /\ \A i \in 1 .. Len(cons.got) : cons.got[i] = PayloadOf(i)
    /\ cons.pc # "lost"

\* the stream has ended, all of it is read, and the consumer is in the
\* middle of a frame
EndedInsideFrame ==
    /\ SocketClosed(ConsumerConn)
    /\ cons.pos = StreamLen(ConsumerConn)
    /\ cons.pc \in {"header", "payload", "loop"}

\* C16: when the stream ends before a header or a payload is read in full,
\* the consumer stops.
C16_ConsumerStopsAtStreamEnd ==
    EndedInsideFrame ~> cons.pc = "stopped"

-----------------------------------------------------------------------------
(* Claims about the distribution of the latest snapshot *)

\* the last inference step that ran to its end, 0 when there is none
LatestCompleted ==
    IF Completed = {} THEN 0
    ELSE CHOOSE k \in Completed : \A j \in Completed : j <= k

\* the record carries the timestamp and the probabilities of step k
CarriesStep(r, k) ==
    /\ k \in 1 .. Len(calls)
    /\ r.t = calls[k].t
    /\ r.p_bc_react = k
    /\ r.p_bc_emo = k

\* a send of the round in progress, or of the last round, has failed
SendFailed == round.removed # {} \/ dist.pc \in {"except", "dead"}

\* a broadcast round with the record of step k has been performed: it ran
\* to the end of the registry or to a failed send, and when no send failed
\* every connection registered at its start was sent the record
Delivered(k) ==
    /\ round.n > 0
    /\ CarriesStep(VapResult(dist), k)
    /\ round.done \/ SendFailed
    /\ ~SendFailed => Range(round.reg) \subseteq round.sent

\* the distributor has read process_time_abs for the first time (line 410)
\* before any inference step has completed
StartedFirst == [](dist.pc = "init" => Completed = {})

\* C20: a step that completes and stays the last one to complete is
\* distributed in the end: a round carries its timestamp and probabilities
\* (stated for the runs in which the distributor started first).
C20_LatestEventuallyDistributed ==
    StartedFirst =>
        \A k \in 1 .. (MaxFramesOut \div 10) :
            (<>[](LatestCompleted = k)) => <>Delivered(k)

-----------------------------------------------------------------------------
(* Claims about the rounds and the steps *)

\* the distributor is between line 418 and line 424 of a round
Copying ==
    dist.pc \in {"setprev", "copy_t", "copy_x1", "copy_x2", "copy_react",
                 "copy_emo"}

\* the rounds the distributor has started: a poll that saw a new
\* process_time_abs (line 414) starts one
RoundsStarted == round.n + (IF Copying THEN 1 ELSE 0)

\* result_last_time and process_time_abs before the first step (lines 229,
\* 231)
Sentinel == VapInit.result_last_time

\* the timestamps of the records that were sent
TimestampsOut ==
    UNION {{wire[c][i].t : i \in 1 .. Len(wire[c])} : c \in Conns}

\* C21: the distributor has started at most as many rounds as inference
\* steps have completed; before the first step completes nothing is sent,
\* and the timestamp -1 of the initial state is never sent.
C21_RoundsBoundedBySteps ==
    /\ RoundsStarted <= Cardinality(Completed)
    /\ Completed = {} =>
          /\ TimestampsOut = {}
          /\ dist.pc \in {"init", "poll"}
    /\ Sentinel \notin TimestampsOut
    /\ dist.pc \in {"for", "send", "except"} => dist.t # Sentinel

\* two steps have completed and the second round has sent its record,
\* while the distributor's first read of process_time_abs came before both
C21_Witness ==
    /\ Cardinality(Completed) = 2
    /\ RoundsStarted = 2
    /\ Cardinality(TimestampsOut) = 2

-----------------------------------------------------------------------------
(* Claims about what a new session inherits *)

\* the embedded steps of earlier sessions that are among the last
\* AUDIO_CONTEXT_LIM embedded
InheritedSteps ==
    {k \in Range(LastOf(Inserted, AUDIO_CONTEXT_LIM)) :
        calls[k].session < session}

\* the fields process_vap publishes at lines 310-312
Published(v) ==
    <<v.result_p_bc_react, v.result_p_bc_emo, v.result_last_time>>

\* C22: an accept that follows a session resets both buffers to overlap_len
\* (320) zero samples and leaves both contexts and the published result
\* fields as they were; the first inference steps of the new session run on
\* contexts that still hold the embeddings of the sessions before.
C22_NewSessionKeepsContext ==
    /\ [][(in_pc = "listen" /\ in_pc' = "recv") =>
            /\ BufLen(current_x1') = FRAME_SAVE_LAST
            /\ BufLen(current_x2') = FRAME_SAVE_LAST
            /\ current_x1'.zeros = FRAME_SAVE_LAST
            /\ current_x2'.zeros = FRAME_SAVE_LAST
            /\ vap'.e1_context = vap.e1_context
            /\ vap'.e2_context = vap.e2_context
            /\ Published(vap') = Published(vap)]_vars
    /\ [](in_pc = "vap_react" =>
            /\ InheritedSteps \subseteq Range(vap.e1_context)
            /\ InheritedSteps \subseteq Range(vap.e2_context))

\* the first step of the second session is at the model's forward pass
\* (lines 266-308): its window starts with the zero samples of the reset,
\* its context holds the embedding of the first session's step, and the
\* published fields are still those of that step
C22_Witness ==
    /\ in_pc = "vap_react"
    /\ session = 2
    /\ FirstOfSession(step)
    /\ InheritedSteps = {1}
    /\ vap.e1_context = <<1, 2>>
    /\ current_x1.zeros = FRAME_SAVE_LAST
    /\ Published(vap) = <<1, 1, calls[1].t>>

====
